---- MODULE Spec2Model ----
(***************************************************************************)
(* Model of src/app.py, the Streamlit admission predictor.                 *)
(*                                                                         *)
(* A Streamlit process executes the script top to bottom once per user     *)
(* interaction ("script run").  Process state that survives a run: the     *)
(* artifact files on disk, the st.cache_resource entry of load_model and   *)
(* the widget values of the session.  Everything else is a global of one   *)
(* run and is rebuilt by the next one.                                     *)
(*                                                                         *)
(* Numbers.  Floats are modelled exactly as fixed-point integers:          *)
(*   sop, lor      in units of 1/SopDenom   (slider step 0.5)              *)
(*   cgpa          in units of 1/CgpaDenom  (slider step 0.01)             *)
(*   rawOutput     in units of 1/RawDenom   (the model's output)           *)
(*   probability   in units of 1/RawDenom percent                          *)
(*   values[k]     a fraction [num, den] of a percentage                   *)
(* The model's output is opaque: any value of RawOutputs, which reaches    *)
(* below 0 and above 1.  NaN and infinities are not modelled.              *)
(***************************************************************************)
EXTENDS Integers, Sequences, FiniteSets

VARIABLES
    modelFile,        \* 'mejor_modelo_admision.h5' on disk: "missing" | "corrupt" | "ok"
    scalerFile,       \* 'scaler_admision.pkl' on disk: [state, n_features]
    cache,            \* st.cache_resource entry of load_model (NoArtifacts: none)
    loadCalls,        \* executions of the body of load_model in this process
    failedLoads,      \* of which ended in st.stop()
    pc,               \* position of the current script run
    executed,         \* sections of the script this run has executed
    error,            \* what this run reported, "none" if nothing
    artifacts,        \* the globals model, scaler of this run (line 262)
    gre, toefl, rating, sop, lor, cgpa, research,   \* widget values
    data,             \* the array built by predict_admission
    rawOutput,        \* prediction[0][0]
    probability,      \* the global probability (line 332)
    status,           \* the classification label (lines 337-352)
    progressLast,     \* last i with progress_bar.progress(i / 100) called
    values,           \* r of the radar trace, without the closing point
    gaugeValue,       \* value of the gauge indicator
    recommendations,  \* result of generate_recommendations
    strength          \* delta label of the metric "Fortaleza General"

procVars == <<modelFile, scalerFile, cache, loadCalls, failedLoads>>
inputs   == <<gre, toefl, rating, sop, lor, cgpa, research>>
results  == <<data, rawOutput, probability, status, progressLast, values,
              gaugeValue, recommendations, strength>>
vars     == <<procVars, pc, executed, error, artifacts, inputs, results>>

----------------------------------------------------------------------------
\* Bounds of the model

\* resolution of the model's output: rawOutput = r / RawDenom
RawDenom == 120
\* how far (in 1/RawDenom) the output may fall below 0 and rise above 1
RawBelow == 3
RawAbove == 3
\* executions of the body of load_model that are followed
MaxLoadCalls == 3

\* widget resolutions
SopDenom == 2
CgpaDenom == 100
\* components of the array built at line 151
NumFeatures == 7

RawOutputs == (0 - RawBelow) .. (RawDenom + RawAbove)

\* feature counts a pickled scaler may have been fitted on
ScalerFeatureCounts == {NumFeatures - 1, NumFeatures, NumFeatures + 1}

NoArtifacts == [model |-> "none", n_features |-> 0]

ModelFiles == {"missing", "corrupt", "ok"}
ScalerFiles ==
    {[state |-> "missing", n_features |-> 0], [state |-> "corrupt", n_features |-> 0]}
    \cup {[state |-> "ok", n_features |-> n] : n \in ScalerFeatureCounts}

----------------------------------------------------------------------------
\* Widgets (lines 298-324): defaults and the profiles a session moves between

DefaultProfile ==
    [gre |-> 320, toefl |-> 110, rating |-> 3, cgpa |-> 850,
     sop |-> 4 * SopDenom, lor |-> 4 * SopDenom, research |-> 1]

MinProfile ==
    [gre |-> 260, toefl |-> 0, rating |-> 1, cgpa |-> 680,
     sop |-> 1 * SopDenom, lor |-> 1 * SopDenom, research |-> 0]

MaxProfile ==
    [gre |-> 340, toefl |-> 120, rating |-> 5, cgpa |-> 1000,
     sop |-> 5 * SopDenom, lor |-> 5 * SopDenom, research |-> 1]

WeakProfile ==
    [gre |-> 300, toefl |-> 90, rating |-> 2, cgpa |-> 750,
     sop |-> 3 * SopDenom, lor |-> 3 * SopDenom, research |-> 0]

Profiles == {DefaultProfile, MinProfile, MaxProfile, WeakProfile}

----------------------------------------------------------------------------
\* load_model (lines 124-147)

\* the way the body of load_model ends for the files it finds
LoadOutcome(mf, sf) ==
    IF mf = "missing" THEN "MissingModel"
    ELSE IF sf.state = "missing" THEN "MissingScaler"
    ELSE IF mf = "corrupt" \/ sf.state = "corrupt" THEN "LoadException"
    ELSE "Loaded"

\* the pair load_model returns when it returns
LoadedArtifacts(sf) == [model |-> "keras", n_features |-> sf.n_features]

\* load_model without its st.stop() calls: the run goes on after a failure
AfterLoad_NoStop(outcome) == "inputs"

\* where the run continues after the body: st.stop() ends the run
AfterLoad(outcome) == IF outcome = "Loaded" THEN "inputs" ELSE "stopped"

\* load_model without @st.cache_resource: nothing is kept
CacheAfterLoad_NoCache(outcome, loaded) == NoArtifacts

\* load_model returning instead of stopping: a failed load is kept too
CacheAfterLoad_KeepsFailure(outcome, loaded) == loaded

\* what st.cache_resource keeps of an execution of the body
CacheAfterLoad(outcome, loaded) == IF outcome = "Loaded" THEN loaded ELSE NoArtifacts

----------------------------------------------------------------------------
\* predict_admission (lines 149-155)

\* the array with cgpa and sop in each other's column
FeatureVector_Reordered(g, t, r, s, l, c, x) == <<g, t, r, c, l, s, x>>

FeatureVector(g, t, r, s, l, c, x) == <<g, t, r, s, l, c, x>>

\* scaler.transform: the pickled scikit-learn scaler validates its input and
\* accepts an array of as many columns as it was fitted on; for any other
\* width it raises ValueError, which predict_admission does not catch
TransformAccepts(n_features, d) == Len(d) = n_features

\* the percentage clamped to [0, 100]
Percentage_Clamped(raw) ==
    IF raw < 0 THEN 0 ELSE IF raw > RawDenom THEN 100 * RawDenom ELSE raw * 100

\* probability = prediction[0][0] * 100
Percentage(raw) == raw * 100

----------------------------------------------------------------------------
\* the classification chain (lines 337-352)

\* the chain with a strict comparison at 40
Classify_Strict40(p) ==
    IF p >= 80 * RawDenom THEN "Muy Alta"
    ELSE IF p >= 60 * RawDenom THEN "Alta"
    ELSE IF p > 40 * RawDenom THEN "Media"
    ELSE "Baja"

Classify(p) ==
    IF p >= 80 * RawDenom THEN "Muy Alta"
    ELSE IF p >= 60 * RawDenom THEN "Alta"
    ELSE IF p >= 40 * RawDenom THEN "Media"
    ELSE "Baja"

----------------------------------------------------------------------------
\* the progress bar (lines 368-371)

\* int(x): truncation toward zero
IntTrunc(p) == IF p >= 0 THEN p \div RawDenom ELSE 0 - ((0 - p) \div RawDenom)

\* progress_bar.progress(i / 100) raises StreamlitAPIException outside [0, 1]
ProgressAccepts(i) == 0 <= i /\ i <= 100

\* for i in range(n): the last i passed to progress and whether it raised
RECURSIVE ProgressLoop(_, _, _)
ProgressLoop(i, n, last) ==
    IF i >= n THEN [last |-> last, raised |-> FALSE]
    ELSE IF ~ProgressAccepts(i) THEN [last |-> i, raised |-> TRUE]
    ELSE ProgressLoop(i + 1, n, i)

----------------------------------------------------------------------------
\* create_radar_chart (lines 157-168) and create_gauge_chart (198-232)

Frac(n, d) == [num |-> n, den |-> d]

\* the radar values with TOEFL taken as a fraction of 100
create_radar_chart_Toefl100(g, t, r, s, l, c, x) ==
    << Frac((g - 260) * 100, 340 - 260),
       Frac(t * 100, 100),
       Frac(r * 100, 5),
       Frac(s * 100, 5 * SopDenom),
       Frac(l * 100, 5 * SopDenom),
       Frac((c - 680) * 100, 10 * CgpaDenom - 680),
       Frac(x * 100, 1) >>

create_radar_chart(g, t, r, s, l, c, x) ==
    << Frac((g - 260) * 100, 340 - 260),
       Frac(t * 100, 120),
       Frac(r * 100, 5),
       Frac(s * 100, 5 * SopDenom),
       Frac(l * 100, 5 * SopDenom),
       Frac((c - 680) * 100, 10 * CgpaDenom - 680),   \* 6.8 is 680 / CgpaDenom
       Frac(x * 100, 1) >>

create_gauge_chart(p) == p

----------------------------------------------------------------------------
\* generate_recommendations (lines 234-259)

\* the rules with the GRE guard written <= 320
generate_recommendations_GreLe(g, t, r, s, l, c, x, p) ==
    LET r1 == IF c < 8 * CgpaDenom THEN <<"CGPA">> ELSE <<>>
        r2 == IF g <= 320 THEN Append(r1, "GRE") ELSE r1
        r3 == IF t < 100 THEN Append(r2, "TOEFL") ELSE r2
        r4 == IF s < 4 * SopDenom THEN Append(r3, "SOP") ELSE r3
        r5 == IF l < 4 * SopDenom THEN Append(r4, "LOR") ELSE r4
        r6 == IF x = 0 THEN Append(r5, "Research") ELSE r5
        r7 == IF p < 60 * RawDenom THEN Append(r6, "Backup") ELSE r6
    IN  r7

generate_recommendations(g, t, r, s, l, c, x, p) ==
    LET r1 == IF c < 8 * CgpaDenom THEN <<"CGPA">> ELSE <<>>
        r2 == IF g < 320 THEN Append(r1, "GRE") ELSE r1
        r3 == IF t < 100 THEN Append(r2, "TOEFL") ELSE r2
        r4 == IF s < 4 * SopDenom THEN Append(r3, "SOP") ELSE r3
        r5 == IF l < 4 * SopDenom THEN Append(r4, "LOR") ELSE r4
        r6 == IF x = 0 THEN Append(r5, "Research") ELSE r5
        r7 == IF p < 60 * RawDenom THEN Append(r6, "Backup") ELSE r6
    IN  r7

----------------------------------------------------------------------------
\* the metric "Fortaleza General" (lines 413-414)

Strength(p) ==
    IF p > 80 * RawDenom THEN "Excelente"
    ELSE IF p > 60 * RawDenom THEN "Buena"
    ELSE "Regular"

----------------------------------------------------------------------------
\* The process

Init ==
    /\ modelFile \in ModelFiles
    /\ scalerFile \in ScalerFiles
    /\ cache = NoArtifacts
    /\ loadCalls = 0
    /\ failedLoads = 0
    /\ pc = "idle"
    /\ executed = {}
    /\ error = "none"
    /\ artifacts = NoArtifacts
    /\ gre = DefaultProfile.gre
    /\ toefl = DefaultProfile.toefl
    /\ rating = DefaultProfile.rating
    /\ sop = DefaultProfile.sop
    /\ lor = DefaultProfile.lor
    /\ cgpa = DefaultProfile.cgpa
    /\ research = DefaultProfile.research
    /\ data = <<>>
    /\ rawOutput = 0
    /\ probability = 0
    /\ status = "none"
    /\ progressLast = 0
    /\ values = <<>>
    /\ gaugeValue = 0
    /\ recommendations = <<>>
    /\ strength = "none"

Between == pc \in {"idle", "done", "stopped", "crashed"}

\* the files in the working directory change between two runs
ArtifactsChange ==
    /\ Between
    /\ modelFile' \in ModelFiles
    /\ scalerFile' \in ScalerFiles
    /\ <<modelFile', scalerFile'>> # <<modelFile, scalerFile>>
    /\ UNCHANGED <<cache, loadCalls, failedLoads, pc, executed, error, artifacts,
                   inputs, results>>

\* a visit or a widget interaction starts a script run with fresh globals
Rerun ==
    /\ Between
    /\ \E p \in Profiles :
          /\ pc = "idle" => p = DefaultProfile
          /\ gre' = p.gre
          /\ toefl' = p.toefl
          /\ rating' = p.rating
          /\ sop' = p.sop
          /\ lor' = p.lor
          /\ cgpa' = p.cgpa
          /\ research' = p.research
    /\ pc' = "load"
    /\ executed' = {}
    /\ error' = "none"
    /\ artifacts' = NoArtifacts
    /\ data' = <<>>
    /\ rawOutput' = 0
    /\ probability' = 0
    /\ status' = "none"
    /\ progressLast' = 0
    /\ values' = <<>>
    /\ gaugeValue' = 0
    /\ recommendations' = <<>>
    /\ strength' = "none"
    /\ UNCHANGED procVars

\* line 262, cache hit: the body of load_model is not executed
LoadCached ==
    /\ pc = "load"
    /\ cache # NoArtifacts
    /\ artifacts' = cache
    /\ pc' = "inputs"
    /\ executed' = executed \cup {"load_model"}
    /\ UNCHANGED <<procVars, error, inputs, results>>

\* line 262, cache miss: the body of load_model is executed
LoadBody ==
    /\ pc = "load"
    /\ cache = NoArtifacts
    /\ loadCalls < MaxLoadCalls
    /\ LET outcome == LoadOutcome(modelFile, scalerFile)
           loaded  == LoadedArtifacts(scalerFile)
       IN  /\ loadCalls' = loadCalls + 1
           /\ failedLoads' = IF outcome = "Loaded" THEN failedLoads ELSE failedLoads + 1
           /\ cache' = CacheAfterLoad(outcome, loaded)
           /\ artifacts' = IF outcome = "Loaded" THEN loaded ELSE NoArtifacts
           /\ error' = IF outcome = "Loaded" THEN "none" ELSE outcome
           /\ pc' = AfterLoad(outcome)
    /\ executed' = executed \cup {"load_model"}
    /\ UNCHANGED <<modelFile, scalerFile, inputs, results>>

\* lines 263-326: header, sidebar and the widgets of col1
InputSection ==
    /\ pc = "inputs"
    /\ pc' = "predict"
    /\ executed' = executed \cup {"inputs"}
    /\ UNCHANGED <<procVars, error, artifacts, inputs, results>>

\* lines 330-334: predict_admission
Predict ==
    /\ pc = "predict"
    /\ data' = FeatureVector(gre, toefl, rating, sop, lor, cgpa, research)
    /\ IF TransformAccepts(artifacts.n_features, data')
       THEN /\ \E r \in RawOutputs :
                  /\ rawOutput' = r
                  /\ probability' = Percentage(r)
            /\ executed' = executed \cup {"predict_admission", "model_predict"}
            /\ pc' = "classify"
            /\ error' = error
       ELSE /\ executed' = executed \cup {"predict_admission"}
            /\ pc' = "crashed"
            /\ error' = "ValueError"
            /\ UNCHANGED <<rawOutput, probability>>
    /\ UNCHANGED <<procVars, artifacts, inputs, status, progressLast, values,
                   gaugeValue, recommendations, strength>>

\* lines 337-365
Classification ==
    /\ pc = "classify"
    /\ status' = Classify(probability)
    /\ pc' = "progress"
    /\ executed' = executed \cup {"classify"}
    /\ UNCHANGED <<procVars, error, artifacts, inputs, data, rawOutput, probability,
                   progressLast, values, gaugeValue, recommendations, strength>>

\* lines 368-371
ProgressBar ==
    /\ pc = "progress"
    /\ LET loop == ProgressLoop(0, IntTrunc(probability) + 1, 0)
       IN  /\ progressLast' = loop.last
           /\ pc' = IF loop.raised THEN "crashed" ELSE "charts"
           /\ error' = IF loop.raised THEN "StreamlitAPIException" ELSE error
    /\ executed' = executed \cup {"progress"}
    /\ UNCHANGED <<procVars, artifacts, inputs, data, rawOutput, probability, status,
                   values, gaugeValue, recommendations, strength>>

\* lines 374-386
Charts ==
    /\ pc = "charts"
    /\ values' = create_radar_chart(gre, toefl, rating, sop, lor, cgpa, research)
    /\ gaugeValue' = create_gauge_chart(probability)
    /\ pc' = "recommend"
    /\ executed' = executed \cup {"charts"}
    /\ UNCHANGED <<procVars, error, artifacts, inputs, data, rawOutput, probability,
                   status, progressLast, recommendations, strength>>

\* lines 389-396
Recommend ==
    /\ pc = "recommend"
    /\ recommendations' =
          generate_recommendations(gre, toefl, rating, sop, lor, cgpa, research,
                                   probability)
    /\ pc' = "metrics"
    /\ executed' = executed \cup {"recommend"}
    /\ UNCHANGED <<procVars, error, artifacts, inputs, data, rawOutput, probability,
                   status, progressLast, values, gaugeValue, strength>>

\* lines 399-434
Metrics ==
    /\ pc = "metrics"
    /\ strength' = Strength(probability)
    /\ pc' = "done"
    /\ executed' = executed \cup {"metrics"}
    /\ UNCHANGED <<procVars, error, artifacts, inputs, data, rawOutput, probability,
                   status, progressLast, values, gaugeValue, recommendations>>

Next ==
    \/ ArtifactsChange
    \/ Rerun
    \/ LoadCached
    \/ LoadBody
    \/ InputSection
    \/ Predict
    \/ Classification
    \/ ProgressBar
    \/ Charts
    \/ Recommend
    \/ Metrics

Spec == Init /\ [][Next]_vars

----------------------------------------------------------------------------
\* Function-level specifications: a run that has reached one section with
\* inputs drawn from bounded sets, and that section applied to them

\* the state of a run that loaded a NumFeatures-column scaler, predicted raw r
\* and is about to execute the charts
ReachedCharts(r) ==
    /\ modelFile = "ok"
    /\ scalerFile = [state |-> "ok", n_features |-> NumFeatures]
    /\ cache = LoadedArtifacts(scalerFile)
    /\ loadCalls = 1
    /\ failedLoads = 0
    /\ error = "none"
    /\ artifacts = cache
    /\ data = FeatureVector(gre, toefl, rating, sop, lor, cgpa, research)
    /\ rawOutput = r
    /\ probability = Percentage(r)
    /\ status = Classify(probability)
    /\ progressLast = ProgressLoop(0, IntTrunc(probability) + 1, 0).last
    /\ strength = "none"
    /\ recommendations = <<>>

\* outputs after which the progress bar lets the run continue
RenderedOutputs ==
    {r \in RawOutputs : ~ProgressLoop(0, IntTrunc(Percentage(r)) + 1, 0).raised}

\* inputs of generate_recommendations: each guard's threshold, the value just
\* below it and the widget's maximum
RecGre == {319, 320, 340}
RecToefl == {99, 100, 120}
RecRating == {1, 5}
RecQuality == {4 * SopDenom - 1, 4 * SopDenom, 5 * SopDenom}
RecCgpa == {8 * CgpaDenom - 1, 8 * CgpaDenom, 10 * CgpaDenom}

InitRec ==
    /\ gre \in RecGre
    /\ toefl \in RecToefl
    /\ rating \in RecRating
    /\ sop \in RecQuality
    /\ lor \in RecQuality
    /\ cgpa \in RecCgpa
    /\ research \in {0, 1}
    /\ \E r \in RenderedOutputs : ReachedCharts(r)
    /\ values = create_radar_chart(gre, toefl, rating, sop, lor, cgpa, research)
    /\ gaugeValue = create_gauge_chart(probability)
    /\ pc = "recommend"
    /\ executed = {"load_model", "inputs", "predict_admission", "model_predict",
                   "classify", "progress", "charts"}

SpecRec == InitRec /\ [][Recommend]_vars

\* inputs of create_radar_chart: the ends of each documented range and the
\* values one step outside them
NormGre == {259, 260, 340, 341}
NormToefl == {0 - 1, 0, 120, 121}
NormRating == {0 - 1, 0, 1, 5, 6}
NormQuality == {0 - 1, 1, 1 * SopDenom, 5 * SopDenom, 5 * SopDenom + 1}
NormCgpa == {679, 680, 10 * CgpaDenom, 10 * CgpaDenom + 1}
NormResearch == {0 - 1, 0, 1, 2}

InitNorm ==
    /\ gre \in NormGre
    /\ toefl \in NormToefl
    /\ rating \in NormRating
    /\ sop \in NormQuality
    /\ lor \in NormQuality
    /\ cgpa \in NormCgpa
    /\ research \in NormResearch
    /\ ReachedCharts(RawDenom)
    /\ values = <<>>
    /\ gaugeValue = 0
    /\ pc = "charts"
    /\ executed = {"load_model", "inputs", "predict_admission", "model_predict",
                   "classify", "progress"}

SpecNorm == InitNorm /\ [][Charts]_vars

----------------------------------------------------------------------------
\* Properties

Ran(step) == step \in executed

LoadErrors == {"MissingModel", "MissingScaler", "LoadException"}

\* C1: for every percentage, also below 0 and above 100, the classification
\* chain assigns exactly one label: Muy Alta iff p >= 80, Alta iff
\* 60 <= p < 80, Media iff 40 <= p < 60, Baja iff p < 40; 40, 60 and 80 fall
\* in the higher band.
C1_ClassificationBands ==
    Ran("classify") =>
        /\ status \in {"Muy Alta", "Alta", "Media", "Baja"}
        /\ status = "Muy Alta" <=> probability >= 80 * RawDenom
        /\ status = "Alta" <=>
              (60 * RawDenom <= probability /\ probability < 80 * RawDenom)
        /\ status = "Media" <=>
              (40 * RawDenom <= probability /\ probability < 60 * RawDenom)
        /\ status = "Baja" <=> probability < 40 * RawDenom

\* a run that classified exactly 40 percent, as Media
C1_Witness ==
    /\ Ran("classify")
    /\ probability = 40 * RawDenom
    /\ status = "Media"

RuleOrder == <<"CGPA", "GRE", "TOEFL", "SOP", "LOR", "Research", "Backup">>

Guard(a) ==
    CASE a = "CGPA" -> cgpa < 8 * CgpaDenom
      [] a = "GRE" -> gre < 320
      [] a = "TOEFL" -> toefl < 100
      [] a = "SOP" -> sop < 4 * SopDenom
      [] a = "LOR" -> lor < 4 * SopDenom
      [] a = "Research" -> research = 0
      [] a = "Backup" -> probability < 60 * RawDenom

\* C2: generate_recommendations returns exactly the advisories whose guard
\* holds, each at most once, in the order of the seven rules: the result is
\* the subsequence of the rule list selected by the true guards, an advisory
\* is present iff its own guard holds, and the result is empty iff no guard
\* holds.
C2_RecommendationsAreGuardedRules ==
    Ran("recommend") =>
        /\ recommendations = SelectSeq(RuleOrder, Guard)
        /\ \A i, j \in 1..Len(recommendations) :
              i # j => recommendations[i] # recommendations[j]
        /\ \A k \in 1..Len(RuleOrder) :
              (\E i \in 1..Len(recommendations) : recommendations[i] = RuleOrder[k])
                 <=> Guard(RuleOrder[k])
        /\ recommendations = <<>> <=> \A k \in 1..Len(RuleOrder) : ~Guard(RuleOrder[k])

\* a profile below every threshold with a percentage below 60: all seven fire
C2_Witness ==
    /\ Ran("recommend")
    /\ Len(recommendations) = 7
    /\ cgpa = 8 * CgpaDenom - 1
    /\ sop = 4 * SopDenom - 1

C4_Original == loadCalls <= 1

\* C4 as amended: at most one execution of the body of load_model succeeds;
\* from then on the result is cached, the body is not executed again and every
\* run gets the same model and scaler; a failed execution caches nothing, so
\* the next run executes the body again.
C4_LoadedOnceThenReused ==
    [][ /\ loadCalls' - failedLoads' <= 1
        /\ cache # NoArtifacts => (cache' = cache /\ loadCalls' = loadCalls)
        /\ artifacts' # NoArtifacts => artifacts' = cache'
        /\ (pc = "load" /\ pc' # "load" /\ cache = NoArtifacts) =>
              loadCalls' = loadCalls + 1
      ]_vars

\* a run that predicts from the cache although the model file is gone
C4_Witness ==
    /\ pc = "classify"
    /\ modelFile = "missing"
    /\ loadCalls = 1
    /\ artifacts = cache

\* C5 as claimed: once load_model has failed, no later run of the process
\* performs a prediction.
C5_Original == failedLoads > 0 => ~Ran("predict_admission")

\* C5 as amended: a load failure ends the script run in which it happens: that
\* run performs no prediction and executes nothing further, and nothing is
\* cached; the process goes on, and a later run predicts once load_model has
\* succeeded.
C5_FailureEndsTheRun ==
    [][ /\ failedLoads' > failedLoads =>
              /\ pc' = "stopped"
              /\ cache' = NoArtifacts
              /\ ~Ran("predict_admission")'
        /\ pc = "stopped" =>
              /\ ~Ran("predict_admission")
              /\ pc' \in {"stopped", "load"}
              /\ pc' = "stopped" => executed' = executed
        /\ (failedLoads > 0 /\ Ran("predict_admission")') => cache' # NoArtifacts
      ]_vars

\* a completed prediction in a process whose earlier run failed to load
C5_Witness ==
    /\ failedLoads > 0
    /\ pc = "done"
    /\ Ran("predict_admission")

InUnit(f) == 0 <= f.num /\ f.num <= 100 * f.den

\* whether the k-th input lies in its documented range
InDocumentedRange(k) ==
    CASE k = 1 -> 260 <= gre /\ gre <= 340
      [] k = 2 -> 0 <= toefl /\ toefl <= 120
      [] k = 3 -> 1 <= rating /\ rating <= 5
      [] k = 4 -> 1 * SopDenom <= sop /\ sop <= 5 * SopDenom
      [] k = 5 -> 1 * SopDenom <= lor /\ lor <= 5 * SopDenom
      [] k = 6 -> 680 <= cgpa /\ cgpa <= 10 * CgpaDenom
      [] k = 7 -> research \in {0, 1}

\* whether the k-th input lies in the range its component is scaled by
InScaledRange(k) ==
    CASE k = 3 -> 0 <= rating /\ rating <= 5
      [] k = 4 -> 0 <= sop /\ sop <= 5 * SopDenom
      [] k = 5 -> 0 <= lor /\ lor <= 5 * SopDenom
      [] OTHER -> InDocumentedRange(k)

\* values[k] = a / b * 100
IsPercentOf(f, a, b) == f.num * b = a * 100 * f.den

RadarFormulas ==
    /\ Len(values) = 7
    /\ \A k \in 1..7 : values[k].den > 0
    /\ IsPercentOf(values[1], gre - 260, 80)
    /\ IsPercentOf(values[2], toefl, 120)
    /\ IsPercentOf(values[3], rating, 5)
    /\ IsPercentOf(values[4], sop, 5 * SopDenom)
    /\ IsPercentOf(values[5], lor, 5 * SopDenom)
    /\ IsPercentOf(values[6], cgpa - 680, 320)
    /\ IsPercentOf(values[7], research, 1)

\* C6 as claimed: the radar values follow the seven formulas; with every input
\* in its documented range every component lies in [0, 100], and a component
\* whose input is outside its documented range lies outside [0, 100].
C6_Original ==
    Ran("charts") =>
        /\ RadarFormulas
        /\ \A k \in 1..7 : InDocumentedRange(k) => InUnit(values[k])
        /\ \A k \in 1..7 : ~InDocumentedRange(k) => ~InUnit(values[k])

\* C6 as amended: the radar values follow the seven formulas and are not
\* clamped; a component lies in [0, 100] exactly when its input lies in the
\* range it is scaled by, which is the documented range for GRE, TOEFL, CGPA
\* and research and is [0, 5] for rating, SOP and LOR: an input in its
\* documented range gives a component in [0, 100], and a rating, SOP or LOR in
\* [0, 1), below its documented minimum, still gives one in [0, 100].
C6_RadarNormalization ==
    Ran("charts") =>
        /\ RadarFormulas
        /\ \A k \in 1..7 : InDocumentedRange(k) => InUnit(values[k])
        /\ \A k \in 1..7 : InScaledRange(k) <=> InUnit(values[k])

\* a rating of 0, outside [1, 5], drawn at 0 on the radar, and a GRE of 341
\* drawn above 100
C6_Witness ==
    /\ Ran("charts")
    /\ rating = 0
    /\ InUnit(values[3])
    /\ gre = 341
    /\ ~InUnit(values[1])

C8_UnclampedPercentage ==
    /\ Ran("model_predict") =>
          /\ probability = rawOutput * 100
          /\ rawOutput > RawDenom => probability > 100 * RawDenom
          /\ rawOutput < 0 => probability < 0
    /\ Ran("classify") =>
          /\ rawOutput * 100 >= 80 * RawDenom => status = "Muy Alta"
          /\ rawOutput * 100 < 40 * RawDenom => status = "Baja"
    /\ Ran("progress") =>
          /\ rawOutput * 100 >= 101 * RawDenom => progressLast = 101
          /\ rawOutput < 0 => progressLast = 0
          /\ (0 <= rawOutput /\ rawOutput * 100 < 101 * RawDenom) =>
                /\ progressLast * RawDenom <= rawOutput * 100
                /\ rawOutput * 100 < (progressLast + 1) * RawDenom
    /\ Ran("charts") => gaugeValue = rawOutput * 100
    /\ Ran("recommend") =>
          ((\E i \in 1..Len(recommendations) : recommendations[i] = "Backup")
              <=> rawOutput * 100 < 60 * RawDenom)

\* a completed run whose raw output was above 1: the gauge shows more than 100
C8_Witness ==
    /\ pc = "done"
    /\ rawOutput > RawDenom
    /\ probability > 100 * RawDenom
    /\ gaugeValue = probability
    /\ status = "Muy Alta"

\* C9: for every percentage predict_admission can return, every value i / 100
\* passed to progress_bar.progress lies in [0, 1] and the progress bar does
\* not end the run.
C9_ProgressInRange ==
    Ran("progress") =>
        /\ 0 <= progressLast
        /\ progressLast <= 100
        /\ error # "StreamlitAPIException"
        /\ pc # "crashed"

\* C10: the label of "Fortaleza General" agrees with the classification of the
\* same percentage: Excelente exactly for Muy Alta, Buena exactly for Alta,
\* Regular exactly for Media and Baja.
C10_StrengthMatchesStatus ==
    Ran("metrics") =>
        /\ strength = "Excelente" <=> status = "Muy Alta"
        /\ strength = "Buena" <=> status = "Alta"
        /\ strength = "Regular" <=> status \in {"Media", "Baja"}

====
